---------------------------- MODULE Spec2Model ----------------------------
(***************************************************************************)
(* FroniusToInflux (src/src/fronius_to_influx.py): the daylight gate, the  *)
(* payload translator and the collect-translate-write loop of run() with   *)
(* its exception handlers.                                                 *)
(*                                                                         *)
(* JSON objects (Python dicts) are functions with string domains: a key is *)
(* present iff it is in the DOMAIN.  A response document is flattened to   *)
(* the three paths the code reads:                                         *)
(*    "DataCollection"  Head.RequestArguments.DataCollection               *)
(*    "Timestamp"       Head.Timestamp                                     *)
(*    "Data"            Body.Data                                          *)
(* JSON scalars are tagged records [t |-> "null"], [t |-> "int", v |-> n], *)
(* [t |-> "float", v |-> n]; Python's float(x) turns the tag to "float".   *)
(***************************************************************************)
EXTENDS Integers, Sequences, FiniteSets, TLC

VARIABLES
    pc,               \* position of run(): a Running position or a wait state
    idx,              \* index into self.endpoints of the for loop (1-based)
    endpoints,        \* self.endpoints
    data,             \* self.data
    collected_data,   \* the local collected_data of run()
    IGNORE_SUN_DOWN,  \* the override attribute
    sun,              \* self.location.sun(): [sunrise, sunset]
    now,              \* the clock read by datetime.datetime.now(tz)
    trace,            \* history: the events of the current cycle attempt
    fetched,          \* history: the documents parsed in the current attempt
    sink,             \* history: the batches the sink accepted in the attempt
    raised,           \* history: the exception caught in the current attempt
    interrupted,      \* history: a KeyboardInterrupt was delivered
    dropped,          \* history: points lost with the last failed attempt
    result            \* outcome of a direct call of translate_response

vars == <<pc, idx, endpoints, data, collected_data, IGNORE_SUN_DOWN, sun, now,
          trace, fetched, sink, raised, interrupted, dropped, result>>

---------------------------------------------------------------------------
(* Bounds of the model *)

MaxEndpoints == 3

MaxTime == 4

MaxTimestamp == 2

(* Program constants *)

BACKOFF_INTERVAL == 3

SunSleep == 60

ConnectionSleep == 10

ErrorSleep == 10

---------------------------------------------------------------------------
(* JSON values *)

EmptyDoc == [k \in {} |-> 0]

Null == [t |-> "null"]

JInt(n) == [t |-> "int", v |-> n]

JFloat(n) == [t |-> "float", v |-> n]

\* Python truthiness of a JSON scalar: None, 0 and 0.0 are falsy
Truthy(x) == x.t # "null" /\ x.v # 0

\* dict.get(key, default)
Get(d, key, default) == IF key \in DOMAIN d THEN d[key] ELSE default

---------------------------------------------------------------------------
(* Exceptions *)

\* the classes derived from Exception that the loop can meet
Exceptions ==
    {"SunIsDown", "ConnectionError", "WrongFroniusData", "DataCollectionError",
     "KeyError", "JSONDecodeError", "TooManyRedirects", "ApiException"}

\* requests.exceptions.ConnectionError, named by the second except clause
ConnectionErrors == {"ConnectionError"}

Ok(v) == [exc |-> "none", val |-> v]

Fail(e) == [exc |-> e, val |-> JFloat(0)]

---------------------------------------------------------------------------
(* get_float_or_zero *)

\* mutation: the value is returned as found, without float()
get_float_or_zero_raw(doc, value) ==
    IF "Data" \notin DOMAIN doc
    THEN Fail("WrongFroniusData")
    ELSE LET internal_data == doc["Data"]
             res == Get(Get(internal_data, value, EmptyDoc), "Value", JInt(0))
         IN  IF Truthy(res) THEN Ok(res) ELSE Ok(JFloat(0))

get_float_or_zero(doc, value) ==
    IF "Data" \notin DOMAIN doc
    THEN Fail("WrongFroniusData")
    ELSE LET internal_data == doc["Data"]
             res == Get(Get(internal_data, value, EmptyDoc), "Value", JInt(0))
         IN  IF Truthy(res) THEN Ok(JFloat(res.v)) ELSE Ok(JFloat(0))

CommonFields ==
    {"FAC", "IAC", "IDC", "PAC", "UAC", "UDC",
     "DAY_ENERGY", "YEAR_ENERGY", "TOTAL_ENERGY"}

ThreePFields == {"IAC_L1", "IAC_L2", "IAC_L3", "UAC_L1", "UAC_L2", "UAC_L3"}

MinMaxFields ==
    {"DAY_PMAX", "DAY_UACMAX", "DAY_UDCMAX", "YEAR_PMAX", "YEAR_UACMAX",
     "YEAR_UDCMAX", "TOTAL_PMAX", "TOTAL_UACMAX", "TOTAL_UDCMAX"}

\* mutation: the tests read the value (if data.get(key)) and not the key
ExtraFields_by_value(d) ==
    (IF "SAC" \in DOMAIN d /\ Truthy(Get(d["SAC"], "Value", JInt(0)))
     THEN {"SAC"} ELSE {})
    \cup (IF "IDC_2" \in DOMAIN d /\ Truthy(Get(d["IDC_2"], "Value", JInt(0)))
          THEN {"IDC_2", "UDC_2"} ELSE {})
    \cup (IF "IDC_3" \in DOMAIN d /\ Truthy(Get(d["IDC_3"], "Value", JInt(0)))
          THEN {"IDC_3", "UDC_3"} ELSE {})
    \cup (IF "IDC_4" \in DOMAIN d /\ Truthy(Get(d["IDC_4"], "Value", JInt(0)))
          THEN {"IDC_4", "UDC_4"} ELSE {})

\* the additional fields for GEN24 Symo, decided by key presence in data
ExtraFields(d) ==
    (IF "SAC" \in DOMAIN d THEN {"SAC"} ELSE {})
    \cup (IF "IDC_2" \in DOMAIN d THEN {"IDC_2", "UDC_2"} ELSE {})
    \cup (IF "IDC_3" \in DOMAIN d THEN {"IDC_3", "UDC_3"} ELSE {})
    \cup (IF "IDC_4" \in DOMAIN d THEN {"IDC_4", "UDC_4"} ELSE {})

\* a 'fields' dict built by one get_float_or_zero call per name
FieldsOf(doc, names) ==
    IF \E f \in names : get_float_or_zero(doc, f).exc # "none"
    THEN [exc |-> (CHOOSE e \in Exceptions :
                      \E f \in names : get_float_or_zero(doc, f).exc = e),
          val |-> EmptyDoc]
    ELSE [exc |-> "none",
          val |-> [f \in names |-> get_float_or_zero(doc, f).val]]

Point(m, ts, flds) == [measurement |-> m, time |-> ts, fields |-> flds]

Raises(e) == [exc |-> e, points |-> << >>]

\* mutation: only the last point built is returned
Returns_last_only(ps) == [exc |-> "none", points |-> << ps[Len(ps)] >>]

Returns(ps) == [exc |-> "none", points |-> ps]

---------------------------------------------------------------------------
(* translate_response: the points of self.data, or the exception raised *)

translate_response(doc) ==
    IF "DataCollection" \notin DOMAIN doc THEN Raises("KeyError")
    ELSE IF "Timestamp" \notin DOMAIN doc THEN Raises("KeyError")
    \* the f-string of the debug log reads self.data['Body']['Data']
    ELSE IF "Data" \notin DOMAIN doc THEN Raises("KeyError")
    ELSE
      LET collection == doc["DataCollection"]
          timestamp  == doc["Timestamp"]
          d          == doc["Data"]
      IN
      IF collection = "CommonInverterData" THEN
          IF "DeviceStatus" \notin DOMAIN d THEN Raises("KeyError")
          ELSE LET f == FieldsOf(doc, CommonFields \cup ExtraFields(d))
               IN  IF f.exc # "none" THEN Raises(f.exc)
                   ELSE Returns(<< Point("DeviceStatus", timestamp,
                                         d["DeviceStatus"]),
                                   Point(collection, timestamp, f.val) >>)
      ELSE IF collection = "3PInverterData" THEN
          LET f == FieldsOf(doc, ThreePFields)
          IN  IF f.exc # "none" THEN Raises(f.exc)
              ELSE Returns(<< Point(collection, timestamp, f.val) >>)
      ELSE IF collection = "MinMaxInverterData" THEN
          LET f == FieldsOf(doc, MinMaxFields)
          IN  IF f.exc # "none" THEN Raises(f.exc)
              ELSE Returns(<< Point(collection, timestamp, f.val) >>)
      ELSE Raises("DataCollectionError")

---------------------------------------------------------------------------
(* sun_is_shining: "SunIsDown" when it raises, "none" when it returns *)

\* mutation: the lower bound of the window made inclusive
sun_is_shining_inclusive(ignore, s, t) ==
    IF ~ignore /\ ~(s.sunrise <= t /\ t < s.sunset)
    THEN "SunIsDown"
    ELSE "none"

sun_is_shining(ignore, s, t) ==
    IF ~ignore /\ ~(s.sunrise < t /\ t < s.sunset)
    THEN "SunIsDown"
    ELSE "none"

---------------------------------------------------------------------------
(* The supervisor: positions of run() and its except clauses *)

RunningPcs == {"gate", "fetch", "translate", "pace", "write", "pace_end"}

WaitStates == {"WaitingForSun", "WaitingForConnection", "WaitingAfterError"}

\* the state of the supervisor's state machine at a position
State == IF pc \in RunningPcs THEN "Running" ELSE pc

\* the except clause that catches exc: the three clauses of the inner try in
\* order, then the outer try, which catches KeyboardInterrupt only
\* mutation: the generic clause placed before the ConnectionError clause
Handler_generic_first(exc) ==
    IF exc = "SunIsDown" THEN "WaitingForSun"
    ELSE IF exc \in Exceptions THEN "WaitingAfterError"
    ELSE "Stopped"

\* mutation: the last clause names the module's own exception classes only,
\* so that any other exception leaves both try statements
Handler_own_errors_only(exc) ==
    IF exc = "SunIsDown" THEN "WaitingForSun"
    ELSE IF exc \in ConnectionErrors THEN "WaitingForConnection"
    ELSE IF exc \in {"WrongFroniusData", "DataCollectionError"}
         THEN "WaitingAfterError"
    ELSE "Stopped"

Handler(exc) ==
    IF exc = "SunIsDown" THEN "WaitingForSun"
    ELSE IF exc \in ConnectionErrors THEN "WaitingForConnection"
    ELSE IF exc \in Exceptions THEN "WaitingAfterError"
    ELSE "Stopped"

\* the sleep of each except clause
BackoffOf(state) ==
    IF state = "WaitingForSun" THEN SunSleep
    ELSE IF state = "WaitingForConnection" THEN ConnectionSleep
    ELSE ErrorSleep

Event(e, a) == [e |-> e, a |-> a]

\* mutation: the generic clause does not reset self.data
Raise_keep_data(exc, tr, acc) ==
    /\ pc' = Handler(exc)
    /\ raised' = exc
    /\ dropped' = Len(acc)
    /\ data' = data
    /\ trace' = Append(tr, Event("backoff", BackoffOf(Handler(exc))))

\* exc propagates out of the inner try body: the clause that catches it runs
\* up to its sleep; only the generic clause resets self.data.  tr is the
\* attempt's history up to the raise, acc the points it had accumulated
Raise(exc, tr, acc) ==
    /\ pc' = Handler(exc)
    /\ raised' = exc
    /\ dropped' = Len(acc)
    /\ data' = IF Handler(exc) = "WaitingAfterError" THEN EmptyDoc ELSE data
    /\ trace' = Append(tr, Event("backoff", BackoffOf(Handler(exc))))

---------------------------------------------------------------------------
(* What the collaborators can answer *)

Times == 0 .. MaxTime

\* the day of the location: sunrise after the first and sunset before the
\* last time of day, so that a clock reading exists on either side of both
SunPairs == {[sunrise |-> 1, sunset |-> b] : b \in 2 .. MaxTime - 1}

CommonDoc ==
    [DataCollection |-> "CommonInverterData", Timestamp |-> 1,
     Data |-> [DeviceStatus |-> [StatusCode |-> JInt(7)],
               PAC |-> [Value |-> JInt(5)]]]

ThreePDoc ==
    [DataCollection |-> "3PInverterData", Timestamp |-> 1,
     Data |-> [IAC_L1 |-> [Value |-> JFloat(2)]]]

MinMaxDoc ==
    [DataCollection |-> "MinMaxInverterData", Timestamp |-> MaxTimestamp,
     Data |-> [DAY_PMAX |-> [Value |-> Null]]]

UnknownDoc ==
    [DataCollection |-> "StorageData", Timestamp |-> 1, Data |-> EmptyDoc]

NoDataDoc == [DataCollection |-> "3PInverterData", Timestamp |-> 1]

LoopDocs == {CommonDoc, ThreePDoc, MinMaxDoc, UnknownDoc, NoDataDoc}

\* the HTTP responses of get(url): a JSON body, or a body that is no JSON
Responses ==
    {[json |-> TRUE, doc |-> d] : d \in LoopDocs}
    \cup {[json |-> FALSE, doc |-> EmptyDoc]}

\* what get(url) raises instead of answering
FetchErrors == {"ConnectionError", "TooManyRedirects"}

NoResult == [exc |-> "pending", points |-> << >>]

---------------------------------------------------------------------------
(* run() *)

Init ==
    /\ pc = "gate"
    /\ idx = 1
    /\ endpoints \in {[i \in 1 .. n |-> i] : n \in 0 .. MaxEndpoints}
    /\ data = EmptyDoc
    /\ collected_data = << >>
    /\ IGNORE_SUN_DOWN \in BOOLEAN
    /\ sun \in SunPairs
    /\ now \in Times
    /\ trace = << >>
    /\ fetched = << >>
    /\ sink = << >>
    /\ raised = "none"
    /\ interrupted = FALSE
    /\ dropped = 0
    /\ result = NoResult

\* mutation: collected_data = [] hoisted out of the while loop
GateCheck_keep_batch ==
    /\ pc = "gate"
    /\ LET e == sun_is_shining(IGNORE_SUN_DOWN, sun, now)
           tr == << Event("gate", 0) >>
       IN  IF e # "none"
           THEN /\ Raise(e, tr, << >>)
                /\ UNCHANGED <<idx, collected_data>>
           ELSE /\ collected_data' = collected_data
                /\ idx' = 1
                /\ pc' = IF Len(endpoints) = 0 THEN "write" ELSE "fetch"
                /\ trace' = tr
                /\ UNCHANGED <<data, raised, dropped>>
    /\ UNCHANGED <<endpoints, IGNORE_SUN_DOWN, sun, now, fetched, sink,
                   interrupted, result>>

\* mutation: the first request issued before the gate is evaluated
GateCheck_after_fetch ==
    /\ pc = "gate"
    /\ LET e == sun_is_shining(IGNORE_SUN_DOWN, sun, now)
           tr == << Event("fetch", 1), Event("gate", 0) >>
       IN  IF e # "none"
           THEN /\ Raise(e, tr, << >>)
                /\ UNCHANGED <<idx, collected_data>>
           ELSE /\ collected_data' = << >>
                /\ idx' = 1
                /\ pc' = IF Len(endpoints) = 0 THEN "write" ELSE "fetch"
                /\ trace' = tr
                /\ UNCHANGED <<data, raised, dropped>>
    /\ UNCHANGED <<endpoints, IGNORE_SUN_DOWN, sun, now, fetched, sink,
                   interrupted, result>>

\* mutation: write_data_points is skipped when there is nothing to poll
GateCheck_skip_empty ==
    /\ pc = "gate"
    /\ LET e == sun_is_shining(IGNORE_SUN_DOWN, sun, now)
           tr == << Event("gate", 0) >>
       IN  IF e # "none"
           THEN /\ Raise(e, tr, << >>)
                /\ UNCHANGED <<idx, collected_data>>
           ELSE /\ collected_data' = << >>
                /\ idx' = 1
                /\ pc' = IF Len(endpoints) = 0 THEN "pace_end" ELSE "fetch"
                /\ trace' = IF Len(endpoints) = 0
                            THEN Append(tr, Event("pace", BACKOFF_INTERVAL))
                            ELSE tr
                /\ UNCHANGED <<data, raised, dropped>>
    /\ UNCHANGED <<endpoints, IGNORE_SUN_DOWN, sun, now, fetched, sink,
                   interrupted, result>>

\* self.sun_is_shining(); collected_data = []; entry of the for loop
GateCheck ==
    /\ pc = "gate"
    /\ LET e == sun_is_shining(IGNORE_SUN_DOWN, sun, now)
           tr == << Event("gate", 0) >>
       IN  IF e # "none"
           THEN /\ Raise(e, tr, << >>)
                /\ UNCHANGED <<idx, collected_data>>
           ELSE /\ collected_data' = << >>
                /\ idx' = 1
                /\ pc' = IF Len(endpoints) = 0 THEN "write" ELSE "fetch"
                /\ trace' = tr
                /\ UNCHANGED <<data, raised, dropped>>
    /\ UNCHANGED <<endpoints, IGNORE_SUN_DOWN, sun, now, fetched, sink,
                   interrupted, result>>

\* mutation: a failed request is logged and the loop body goes on with
\* whatever self.data holds
Fetch_keep_going ==
    /\ pc = "fetch"
    /\ LET tr == Append(trace, Event("fetch", idx))
       IN  \/ /\ pc' = "translate"
              /\ trace' = tr
              /\ UNCHANGED <<data, fetched, raised, dropped>>
           \/ \E r \in Responses :
                IF ~r.json
                THEN /\ Raise("JSONDecodeError", tr, collected_data)
                     /\ UNCHANGED fetched
                ELSE /\ data' = r.doc
                     /\ fetched' = Append(fetched, r.doc)
                     /\ pc' = "translate"
                     /\ trace' = tr
                     /\ UNCHANGED <<raised, dropped>>
    /\ UNCHANGED <<idx, endpoints, collected_data, IGNORE_SUN_DOWN, sun, now, sink,
                   interrupted, result>>

\* response = get(url); self.data = response.json()
Fetch ==
    /\ pc = "fetch"
    /\ LET tr == Append(trace, Event("fetch", idx))
       IN  \/ \E e \in FetchErrors :
                /\ Raise(e, tr, collected_data)
                /\ UNCHANGED fetched
           \/ \E r \in Responses :
                IF ~r.json
                THEN /\ Raise("JSONDecodeError", tr, collected_data)
                     /\ UNCHANGED fetched
                ELSE /\ data' = r.doc
                     /\ fetched' = Append(fetched, r.doc)
                     /\ pc' = "translate"
                     /\ trace' = tr
                     /\ UNCHANGED <<raised, dropped>>
    /\ UNCHANGED <<idx, endpoints, collected_data, IGNORE_SUN_DOWN, sun, now, sink,
                   interrupted, result>>

\* mutation: the new points are put in front of the batch
Translate_prepend ==
    /\ pc = "translate"
    /\ LET r == translate_response(data)
       IN  IF r.exc # "none"
           THEN /\ Raise(r.exc, trace, collected_data)
                /\ UNCHANGED collected_data
           ELSE /\ collected_data' = r.points \o collected_data
                /\ pc' = "pace"
                /\ trace' = trace \o << Event("append", idx),
                                        Event("pace", BACKOFF_INTERVAL) >>
                /\ UNCHANGED <<data, raised, dropped>>
    /\ UNCHANGED <<idx, endpoints, IGNORE_SUN_DOWN, sun, now, fetched, sink,
                   interrupted, result>>

\* mutation: a failed translation is skipped and the for loop goes on
Translate_skip_failed ==
    /\ pc = "translate"
    /\ LET r == translate_response(data)
       IN  IF r.exc # "none"
           THEN /\ pc' = "pace"
                /\ trace' = Append(trace, Event("pace", BACKOFF_INTERVAL))
                /\ UNCHANGED <<collected_data, data, raised, dropped>>
           ELSE /\ collected_data' = collected_data \o r.points
                /\ pc' = "pace"
                /\ trace' = trace \o << Event("append", idx),
                                        Event("pace", BACKOFF_INTERVAL) >>
                /\ UNCHANGED <<data, raised, dropped>>
    /\ UNCHANGED <<idx, endpoints, IGNORE_SUN_DOWN, sun, now, fetched, sink,
                   interrupted, result>>

\* mutation: no sleep in the for loop
Translate_without_pause ==
    /\ pc = "translate"
    /\ LET r == translate_response(data)
       IN  IF r.exc # "none"
           THEN /\ Raise(r.exc, trace, collected_data)
                /\ UNCHANGED <<collected_data, idx>>
           ELSE /\ collected_data' = collected_data \o r.points
                /\ idx' = idx + 1
                /\ pc' = IF idx + 1 > Len(endpoints) THEN "write" ELSE "fetch"
                /\ trace' = Append(trace, Event("append", idx))
                /\ UNCHANGED <<data, raised, dropped>>
    /\ UNCHANGED <<endpoints, IGNORE_SUN_DOWN, sun, now, fetched, sink,
                   interrupted, result>>

\* collected_data.extend(self.translate_response()); sleep(BACKOFF_INTERVAL)
Translate ==
    /\ pc = "translate"
    /\ LET r == translate_response(data)
       IN  IF r.exc # "none"
           THEN /\ Raise(r.exc, trace, collected_data)
                /\ UNCHANGED collected_data
           ELSE /\ collected_data' = collected_data \o r.points
                /\ pc' = "pace"
                /\ trace' = trace \o << Event("append", idx),
                                        Event("pace", BACKOFF_INTERVAL) >>
                /\ UNCHANGED <<data, raised, dropped>>
    /\ UNCHANGED <<idx, endpoints, IGNORE_SUN_DOWN, sun, now, fetched, sink,
                   interrupted, result>>

\* mutation: the gate is evaluated again before every endpoint
PaceElapsed_recheck ==
    /\ pc = "pace"
    /\ LET e == sun_is_shining(IGNORE_SUN_DOWN, sun, now)
       IN  IF e # "none"
           THEN /\ Raise(e, trace, collected_data)
                /\ UNCHANGED idx
           ELSE /\ idx' = idx + 1
                /\ pc' = IF idx + 1 > Len(endpoints) THEN "write" ELSE "fetch"
                /\ UNCHANGED <<data, trace, raised, dropped>>
    /\ UNCHANGED <<endpoints, collected_data, IGNORE_SUN_DOWN, sun, now,
                   fetched, sink, interrupted, result>>

\* the pacing sleep of the for loop returns: next endpoint, or leave the loop
PaceElapsed ==
    /\ pc = "pace"
    /\ idx' = idx + 1
    /\ pc' = IF idx + 1 > Len(endpoints) THEN "write" ELSE "fetch"
    /\ UNCHANGED <<endpoints, data, collected_data, IGNORE_SUN_DOWN, sun, now,
                   trace, fetched, sink, raised, interrupted, dropped, result>>

\* self.write_data_points(collected_data); sleep(BACKOFF_INTERVAL).  The sink
\* accepts the whole batch or raises; its client is built on urllib3 and
\* raises none of the requests library's exceptions
Write ==
    /\ pc = "write"
    /\ LET tr == Append(trace, Event("write", Len(collected_data)))
       IN  \/ /\ sink' = Append(sink, collected_data)
              /\ pc' = "pace_end"
              /\ trace' = Append(tr, Event("pace", BACKOFF_INTERVAL))
              /\ UNCHANGED <<data, raised, dropped>>
           \/ /\ Raise("ApiException", tr, collected_data)
              /\ UNCHANGED sink
    /\ UNCHANGED <<idx, endpoints, collected_data, IGNORE_SUN_DOWN, sun, now,
                   fetched, interrupted, result>>

\* the sleep after the write returns: the while loop starts its next pass
PaceEndElapsed ==
    /\ pc = "pace_end"
    /\ pc' = "gate"
    /\ trace' = << >>
    /\ fetched' = << >>
    /\ sink' = << >>
    /\ raised' = "none"
    /\ dropped' = 0
    /\ UNCHANGED <<idx, endpoints, data, collected_data, IGNORE_SUN_DOWN, sun, now,
                   interrupted, result>>

\* mutation: after the connection wait the request is retried in place
WaitElapsed_retry_fetch ==
    /\ pc \in WaitStates
    /\ pc' = IF pc = "WaitingForConnection" THEN "fetch" ELSE "gate"
    /\ trace' = << >>
    /\ fetched' = << >>
    /\ sink' = << >>
    /\ raised' = "none"
    /\ UNCHANGED <<idx, endpoints, data, collected_data, IGNORE_SUN_DOWN, sun, now,
                   interrupted, dropped, result>>

\* mutation: the generic clause re-raises after its sleep and run() ends
WaitElapsed_give_up ==
    /\ pc \in WaitStates
    /\ pc' = IF pc = "WaitingAfterError" THEN "Stopped" ELSE "gate"
    /\ trace' = << >>
    /\ fetched' = << >>
    /\ sink' = << >>
    /\ raised' = "none"
    /\ UNCHANGED <<idx, endpoints, data, collected_data, IGNORE_SUN_DOWN, sun, now,
                   interrupted, dropped, result>>

\* the sleep of an except clause returns: the while loop starts its next pass
WaitElapsed ==
    /\ pc \in WaitStates
    /\ pc' = "gate"
    /\ trace' = << >>
    /\ fetched' = << >>
    /\ sink' = << >>
    /\ raised' = "none"
    /\ UNCHANGED <<idx, endpoints, data, collected_data, IGNORE_SUN_DOWN, sun, now,
                   interrupted, dropped, result>>

\* mutation: the interrupt is a flag the loop polls at the top of each pass
\* and in its backoff sleeps
Interrupt_at_boundary ==
    /\ pc # "Stopped"
    /\ pc' = IF pc \in {"gate", "pace_end"} \cup WaitStates
             THEN "Stopped" ELSE pc
    /\ interrupted' = TRUE
    /\ UNCHANGED <<idx, endpoints, data, collected_data, IGNORE_SUN_DOWN, sun, now,
                   trace, fetched, sink, raised, dropped, result>>

\* KeyboardInterrupt is raised in the main thread at whatever statement it is
\* executing; no clause of the inner try catches it
Interrupt ==
    /\ pc # "Stopped"
    /\ pc' = Handler("KeyboardInterrupt")
    /\ interrupted' = TRUE
    /\ UNCHANGED <<idx, endpoints, data, collected_data, IGNORE_SUN_DOWN, sun, now,
                   trace, fetched, sink, raised, dropped, result>>

\* time of day passes
Tick ==
    /\ now' = (now + 1) % (MaxTime + 1)
    /\ UNCHANGED <<pc, idx, endpoints, data, collected_data, IGNORE_SUN_DOWN, sun,
                   trace, fetched, sink, raised, interrupted, dropped, result>>

Next ==
    \/ GateCheck
    \/ Fetch
    \/ Translate
    \/ PaceElapsed
    \/ Write
    \/ PaceEndElapsed
    \/ WaitElapsed
    \/ Interrupt
    \/ Tick

Spec == Init /\ [][Next]_vars

\* the statements of run(): the thread goes on executing and every sleep
\* returns; the clock and the interrupt are not the program's to take
Step ==
    \/ GateCheck
    \/ Fetch
    \/ Translate
    \/ PaceElapsed
    \/ Write
    \/ PaceEndElapsed
    \/ WaitElapsed

FairSpec == Init /\ [][Next]_vars /\ WF_vars(Step)

---------------------------------------------------------------------------
(* translate_response called on its own, on every document of a bounded set *)

CollectionNames ==
    {"CommonInverterData", "3PInverterData", "MinMaxInverterData", "StorageData"}

KnownCollections ==
    {"CommonInverterData", "3PInverterData", "MinMaxInverterData"}

DrawnKeys == {"PAC", "SAC", "IDC_2", "UDC_2", "IDC_3", "IDC_4"}

\* a field's object: without Value, or with Value null, 0 or a number
Entries ==
    {EmptyDoc, [Value |-> Null], [Value |-> JInt(0)], [Value |-> JInt(5)]}

\* PAC takes every kind of object; a key of the GEN24 tests takes a falsy
\* and a truthy one
EntriesOf(k) ==
    IF k = "PAC" THEN Entries ELSE {[Value |-> Null], [Value |-> JInt(5)]}

NumericData ==
    UNION {{d \in [K -> Entries] : \A k \in K : d[k] \in EntriesOf(k)} :
             K \in SUBSET DrawnKeys}

WithStatus(d) ==
    [k \in DOMAIN d \cup {"DeviceStatus"} |->
        IF k = "DeviceStatus" THEN [StatusCode |-> JInt(7)] ELSE d[k]]

DataSamples == NumericData \cup {WithStatus(d) : d \in NumericData}

Restrict(f, K) == [k \in K |-> f[k]]

FullDocs ==
    [DataCollection : CollectionNames, Timestamp : 1 .. MaxTimestamp,
     Data : DataSamples]

\* every document with any of the three paths missing
Docs ==
    {Restrict(f, K) : f \in FullDocs,
                      K \in SUBSET {"DataCollection", "Timestamp", "Data"}}

InitTranslate ==
    /\ pc = "translate"
    /\ idx = 1
    /\ endpoints = << 1 >>
    /\ data \in Docs
    /\ collected_data = << >>
    /\ IGNORE_SUN_DOWN = TRUE
    /\ sun = [sunrise |-> 1, sunset |-> MaxTime - 1]
    /\ now = 0
    /\ trace = << >>
    /\ fetched = << >>
    /\ sink = << >>
    /\ raised = "none"
    /\ interrupted = FALSE
    /\ dropped = 0
    /\ result = NoResult

\* self.translate_response() with self.data set by the caller
TranslateCall ==
    /\ result = NoResult
    /\ result' = translate_response(data)
    /\ UNCHANGED <<pc, idx, endpoints, data, collected_data, IGNORE_SUN_DOWN, sun,
                   now, trace, fetched, sink, raised, interrupted, dropped>>

NextTranslate == TranslateCall

SpecTranslate == InitTranslate /\ [][NextTranslate]_vars

---------------------------------------------------------------------------
(* Properties of run() *)

\* how often an event of kind e occurred in the current attempt
Count(e) == Cardinality({i \in DOMAIN trace : trace[i].e = e})

\* the endpoints whose points were appended in the current attempt
Appended == {trace[i].a : i \in {j \in DOMAIN trace : trace[j].e = "append"}}

LastEvent == trace[Len(trace)]

\* the batch that a list of documents translates to, in order
RECURSIVE PointsOf(_)
PointsOf(docs) ==
    IF Len(docs) = 0 THEN << >>
    ELSE PointsOf(SubSeq(docs, 1, Len(docs) - 1))
         \o translate_response(docs[Len(docs)]).points

\* the gate is active for the current clock reading
GateActive == IGNORE_SUN_DOWN \/ (sun.sunrise < now /\ now < sun.sunset)

\* the step that evaluates the gate
GateStep == pc = "gate" /\ trace = << >> /\ trace' # << >>

\* C1: a batch is never partially written.  In every attempt the sink is
\* called at most once, after every endpoint was fetched and its points were
\* appended, with all the points collected; an attempt that failed at fetch,
\* parse or translate never called the sink.
BatchNeverPartial ==
    /\ Count("write") <= 1
    /\ Len(sink) <= 1
    /\ \A i, j \in DOMAIN trace :
          trace[i].e = "write" /\ trace[j].e \in {"fetch", "append"} => j < i
    /\ Count("write") = 1 =>
          /\ Appended = DOMAIN endpoints
          /\ Count("fetch") = Len(endpoints)
          /\ Count("append") = Len(endpoints)
          /\ \A i \in DOMAIN trace :
                trace[i].e = "write" => trace[i].a = Len(collected_data)
    /\ sink # << >> => Count("write") = 1 /\ sink[1] = collected_data
    /\ raised \notin {"none", "ApiException"} =>
          Count("write") = 0 /\ sink = << >>

\* C1 witness: the second of three endpoints failed after the first one had
\* contributed points, and nothing was written
SecondOfThreeFailed ==
    /\ Len(endpoints) = 3
    /\ pc = "WaitingAfterError"
    /\ idx = 2
    /\ Appended = {1}
    /\ dropped > 0
    /\ sink = << >>

\* C2: every failed attempt is retried from scratch.  Inside an attempt the
\* batch holds exactly the points of the responses fetched in this attempt,
\* and an accepted batch is exactly the points of one response per endpoint,
\* all fetched in this attempt.
BatchIsFresh ==
    /\ pc \in {"fetch", "pace", "write", "pace_end"} =>
          collected_data = PointsOf(fetched)
    /\ pc = "translate" =>
          collected_data = PointsOf(SubSeq(fetched, 1, Len(fetched) - 1))
    /\ sink # << >> =>
          /\ Len(fetched) = Len(endpoints)
          /\ sink[1] = PointsOf(fetched)

\* C2 witness: a batch was accepted in the attempt that follows one which
\* failed with points already accumulated
WrittenAfterDrop ==
    /\ dropped > 0
    /\ raised = "none"
    /\ sink # << >>
    /\ Len(sink[1]) > 0

\* C3: the gate is checked first.  The first event of every attempt is the
\* gate check; when the gate is inactive the attempt ends in SunIsDown with
\* no request issued and no sink call.
GateCheckedFirst ==
    /\ [](trace # << >> => trace[1].e = "gate")
    /\ [](raised = "SunIsDown" =>
            /\ Count("fetch") = 0
            /\ Count("write") = 0
            /\ fetched = << >>
            /\ sink = << >>)
    /\ [][GateStep /\ ~GateActive =>
            /\ raised' = "SunIsDown"
            /\ pc' = "WaitingForSun"
            /\ trace' = << Event("gate", 0), Event("backoff", 60) >>]_vars

\* C3 witness: an attempt with endpoints to poll ended at the gate
StoppedAtGate ==
    /\ pc = "WaitingForSun"
    /\ raised = "SunIsDown"
    /\ Len(endpoints) = MaxEndpoints
    /\ ~GateActive

\* C4: every failure is classified into exactly one wait state.  SunIsDown
\* waits 60 s in WaitingForSun, a connection failure of the fetch 10 s in
\* WaitingForConnection, any other failure 10 s in WaitingAfterError; an
\* attempt without failure stays Running and never sleeps a backoff.
FailureClassified ==
    /\ raised = "SunIsDown" =>
          /\ pc \in {"WaitingForSun", "Stopped"}
          /\ LastEvent = Event("backoff", 60)
    /\ raised = "ConnectionError" =>
          /\ pc \in {"WaitingForConnection", "Stopped"}
          /\ LastEvent = Event("backoff", 10)
          /\ trace[Len(trace) - 1].e = "fetch"
    /\ raised \notin {"none", "SunIsDown", "ConnectionError"} =>
          /\ pc \in {"WaitingAfterError", "Stopped"}
          /\ LastEvent = Event("backoff", 10)
    /\ raised = "none" =>
          /\ State \in {"Running", "Stopped"}
          /\ Count("backoff") = 0
    /\ pc \in WaitStates => raised # "none" /\ Count("backoff") = 1

\* C4 witness: a connection failure of the second fetch is being waited out
WaitingForConnectionReached ==
    /\ pc = "WaitingForConnection"
    /\ raised = "ConnectionError"
    /\ idx = 2

\* C5: the supervisor is Stopped if and only if an interrupt was delivered.
\* No failure of the gate, a fetch, a translation or the sink ends the loop,
\* an interrupt in any state leads to Stopped, and once Stopped nothing more
\* is fetched, written or slept.
StoppedIffInterrupted ==
    /\ [](pc = "Stopped" <=> interrupted)
    /\ [][interrupted' /\ ~interrupted => pc' = "Stopped"]_vars
    /\ [][pc = "Stopped" =>
            UNCHANGED <<pc, idx, data, collected_data, trace, fetched, sink,
                        raised>>]_vars

\* C5 witness: an interrupt ended the loop while it waited after an error
\* which itself had not ended it
StoppedWhileWaiting ==
    /\ pc = "Stopped"
    /\ interrupted
    /\ raised \in {"KeyError", "JSONDecodeError", "ApiException"}

\* C6: when the sleep of a wait state elapses the supervisor is Running
\* again, at the gate check of a fresh attempt; a wait state is never left
\* for another wait state.
WaitReturnsToGate ==
    /\ [][(pc \in WaitStates) => (pc' \in {pc, "gate", "Stopped"})]_vars
    /\ [][(pc \in WaitStates) /\ pc' = "gate" =>
            trace' = << >> /\ fetched' = << >> /\ sink' = << >>]_vars
    /\ [][pc = "gate" /\ pc' \notin {"gate", "Stopped"} =>
            trace'[1] = Event("gate", 0)]_vars

\* C6 witness: the loop is back at the gate after a failed attempt
BackAtGateAfterFailure ==
    /\ pc = "gate"
    /\ dropped > 0
    /\ trace = << >>

\* C7 as claimed: the supervisor enters Stopped only between cycles or from
\* a sleep that follows a finished cycle, never with a cycle under way.
StoppedOnlyBetweenCycles ==
    pc = "Stopped" =>
        \/ trace = << >>
        \/ raised # "none"
        \/ Count("write") = 1

\* C7 as amended: an interrupt is observed wherever the loop stands, also in
\* the middle of a cycle.  The supervisor is Stopped at once, and the cycle
\* that was cut short issues no further request and writes no batch.
InterruptStopsAnywhere ==
    /\ [][interrupted' /\ ~interrupted =>
            /\ pc' = "Stopped"
            /\ UNCHANGED <<trace, fetched, sink, collected_data, data>>]_vars
    /\ [][interrupted => UNCHANGED <<trace, fetched, sink>>]_vars

\* C7 witness: Stopped with the first response fetched, more endpoints to
\* poll and nothing written
StoppedMidCycle ==
    /\ pc = "Stopped"
    /\ raised = "none"
    /\ Len(fetched) = 1
    /\ Len(endpoints) > 1
    /\ Count("write") = 0

\* C10: the gate is active if and only if the override is set or
\* sunrise < now < sunset, both bounds strict.
GateIsStrictWindow ==
    [][GateStep =>
         ((raised' = "none" /\ pc' \in {"fetch", "write"})
            <=> (IGNORE_SUN_DOWN \/ (sun.sunrise < now /\ now < sun.sunset)))
         /\ ((raised' = "SunIsDown")
            <=> ~(IGNORE_SUN_DOWN \/ (sun.sunrise < now /\ now < sun.sunset)))
      ]_vars

\* C10 witness: the gate was found inactive at sunrise exactly
InactiveAtSunrise ==
    /\ pc = "WaitingForSun"
    /\ ~IGNORE_SUN_DOWN
    /\ now = sun.sunrise
    /\ trace = << Event("gate", 0), Event("backoff", 60) >>

---------------------------------------------------------------------------
(* Properties of translate_response *)

\* C8: a response without Body.Data makes translate_response raise
\* WrongFroniusData, whatever its collection type (stated for the responses
\* whose Head is complete).
MissingDataIsMalformed ==
    (/\ result # NoResult
     /\ "DataCollection" \in DOMAIN data
     /\ "Timestamp" \in DOMAIN data
     /\ "Data" \notin DOMAIN data)
    => result.exc = "WrongFroniusData"

\* C9: a response whose DataCollection is none of the three known names
\* makes translate_response raise DataCollectionError and yield no points
\* (stated for the responses whose Head is complete).
UnknownCollectionRejected ==
    (/\ result # NoResult
     /\ "DataCollection" \in DOMAIN data
     /\ "Timestamp" \in DOMAIN data
     /\ data["DataCollection"] \notin KnownCollections)
    => (result.exc = "DataCollectionError" /\ result.points = << >>)

\* the response is complete down to Body.Data and of a known collection
WellFormed ==
    /\ "DataCollection" \in DOMAIN data
    /\ "Timestamp" \in DOMAIN data
    /\ "Data" \in DOMAIN data
    /\ data["DataCollection"] \in KnownCollections

\* the documented points: two for CommonInverterData, the DeviceStatus point
\* first, one for the other collections, all with the response's timestamp
DocumentedPoints ==
    /\ result.exc = "none"
    /\ \A i \in DOMAIN result.points :
          result.points[i].time = data["Timestamp"]
    /\ IF data["DataCollection"] = "CommonInverterData"
       THEN /\ Len(result.points) = 2
            /\ result.points[1].measurement = "DeviceStatus"
            /\ result.points[1].fields = data["Data"]["DeviceStatus"]
            /\ result.points[2].measurement = "CommonInverterData"
       ELSE /\ Len(result.points) = 1
            /\ result.points[1].measurement = data["DataCollection"]

\* C11 as claimed: every response of a known collection type (complete down
\* to Body.Data) translates to the documented points.
KnownCollectionTranslates ==
    (result # NoResult /\ WellFormed) => DocumentedPoints

\* C11 as amended: every response of a known collection type translates to
\* the documented points, provided a CommonInverterData response holds the
\* key DeviceStatus in Body.Data; one that lacks it raises KeyError and
\* yields no point.
KnownCollectionWithStatusTranslates ==
    (result # NoResult /\ WellFormed) =>
        IF /\ data["DataCollection"] = "CommonInverterData"
           /\ "DeviceStatus" \notin DOMAIN data["Data"]
        THEN result = Raises("KeyError")
        ELSE DocumentedPoints

\* C11 witness: a CommonInverterData response was translated to two points
CommonTranslated ==
    /\ result # NoResult
    /\ WellFormed
    /\ data["DataCollection"] = "CommonInverterData"
    /\ Len(result.points) = 2

---------------------------------------------------------------------------
(* Properties of the batch *)

\* the measurement names documented for a response, in order
NamesOf(doc) ==
    IF doc["DataCollection"] = "CommonInverterData"
    THEN << "DeviceStatus", "CommonInverterData" >>
    ELSE << doc["DataCollection"] >>

\* the documented <<measurement, time>> of every point of a list of
\* responses, response by response
RECURSIVE Labels(_)
Labels(docs) ==
    IF Len(docs) = 0 THEN << >>
    ELSE LET doc == docs[Len(docs)]
         IN  Labels(SubSeq(docs, 1, Len(docs) - 1))
             \o [i \in 1 .. Len(NamesOf(doc)) |->
                    << NamesOf(doc)[i], doc["Timestamp"] >>]

\* C12: the accepted batch is the concatenation of each endpoint's points in
\* endpoint order, every point with the measurement name and the timestamp
\* of its own response; CommonInverterData, 3PInverterData and
\* MinMaxInverterData from three endpoints make one write of 4 points.
BatchInEndpointOrder ==
    /\ sink # << >> =>
          /\ Count("write") = 1
          /\ [i \in DOMAIN sink[1] |->
                << sink[1][i].measurement, sink[1][i].time >>]
             = Labels(fetched)
    /\ (sink # << >> /\ fetched = << CommonDoc, ThreePDoc, MinMaxDoc >>) =>
          /\ Len(sink[1]) = 4
          /\ [i \in 1 .. 4 |-> sink[1][i].measurement]
             = << "DeviceStatus", "CommonInverterData", "3PInverterData",
                  "MinMaxInverterData" >>
          /\ [i \in 1 .. 4 |-> sink[1][i].time]
             = << CommonDoc["Timestamp"], CommonDoc["Timestamp"],
                  ThreePDoc["Timestamp"], MinMaxDoc["Timestamp"] >>

\* C12 witness: the three collections were fetched in that order and the
\* batch of 4 points was accepted
ThreeCollectionsWritten ==
    /\ pc = "pace_end"
    /\ fetched = << CommonDoc, ThreePDoc, MinMaxDoc >>
    /\ Len(sink) = 1
    /\ Len(sink[1]) = 4

---------------------------------------------------------------------------
(* Properties of the fields *)

\* a CommonInverterData response was translated
CommonResult ==
    /\ result # NoResult
    /\ result.exc = "none"
    /\ data["DataCollection"] = "CommonInverterData"

\* the point of numeric fields of a translated response
NumericPoint == result.points[Len(result.points)]

\* C13: the CommonInverterData point has the nine fixed fields, SAC iff the
\* key SAC is in Body.Data, and IDC_n with UDC_n iff the key IDC_n is in
\* Body.Data (n = 2, 3, 4), whatever the values are.
ConditionalFieldsByKey ==
    CommonResult =>
      LET keys == DOMAIN data["Data"]
          flds == DOMAIN NumericPoint.fields
      IN  /\ {"FAC", "IAC", "IDC", "PAC", "UAC", "UDC", "DAY_ENERGY",
              "YEAR_ENERGY", "TOTAL_ENERGY"} \subseteq flds
          /\ flds \subseteq
                {"FAC", "IAC", "IDC", "PAC", "UAC", "UDC", "DAY_ENERGY",
                 "YEAR_ENERGY", "TOTAL_ENERGY", "SAC", "IDC_2", "UDC_2",
                 "IDC_3", "UDC_3", "IDC_4", "UDC_4"}
          /\ "SAC" \in flds <=> "SAC" \in keys
          /\ "IDC_2" \in flds <=> "IDC_2" \in keys
          /\ "UDC_2" \in flds <=> "IDC_2" \in keys
          /\ "IDC_3" \in flds <=> "IDC_3" \in keys
          /\ "UDC_3" \in flds <=> "IDC_3" \in keys
          /\ "IDC_4" \in flds <=> "IDC_4" \in keys
          /\ "UDC_4" \in flds <=> "IDC_4" \in keys

\* C13 witness: IDC_2 is a key with a null value and UDC_2 is no key, and
\* both fields were added; UDC_2 alone would have added nothing
NullKeyAddsFields ==
    /\ CommonResult
    /\ "IDC_2" \in DOMAIN data["Data"]
    /\ data["Data"]["IDC_2"] = [Value |-> Null]
    /\ "UDC_2" \notin DOMAIN data["Data"]
    /\ {"IDC_2", "UDC_2"} \subseteq DOMAIN NumericPoint.fields
    /\ "SAC" \notin DOMAIN NumericPoint.fields

\* the value documented for field f of Body.Data d
DocumentedValue(d, f) ==
    IF \/ f \notin DOMAIN d
       \/ "Value" \notin DOMAIN d[f]
       \/ d[f]["Value"] = Null
       \/ d[f]["Value"] = JInt(0)
    THEN JFloat(0)
    ELSE JFloat(d[f]["Value"].v)

\* C14: every numeric field of a translated response is 0.0 when the field
\* is missing from Body.Data or its Value is missing, null or 0, and the
\* Value as a float otherwise.
FieldValueOrZero ==
    (result # NoResult /\ result.exc = "none") =>
        \A f \in DOMAIN NumericPoint.fields :
            NumericPoint.fields[f] = DocumentedValue(data["Data"], f)

\* C14 witness: PAC is present with Value 0 and FAC is missing, and both
\* came out as the same 0.0
ZeroAndMissingAlike ==
    /\ result # NoResult
    /\ result.exc = "none"
    /\ data["DataCollection"] = "CommonInverterData"
    /\ "PAC" \in DOMAIN data["Data"]
    /\ data["Data"]["PAC"] = [Value |-> JInt(0)]
    /\ "FAC" \notin DOMAIN data["Data"]
    /\ NumericPoint.fields["PAC"] = JFloat(0)
    /\ NumericPoint.fields["FAC"] = NumericPoint.fields["PAC"]

---------------------------------------------------------------------------
(* Properties of the cycle *)

\* the event at position j of an attempt over n endpoints that does not fail:
\* the gate, then fetch, append (of the translated points) and pacing sleep
\* per endpoint, then the write of k points and one more pacing sleep
CycleEvent(j, n, k) ==
    IF j = 1 THEN Event("gate", 0)
    ELSE IF j = 3 * n + 2 THEN Event("write", k)
    ELSE IF j = 3 * n + 3 THEN Event("pace", BACKOFF_INTERVAL)
    ELSE IF (j - 2) % 3 = 0 THEN Event("fetch", ((j - 2) \div 3) + 1)
    ELSE IF (j - 2) % 3 = 1 THEN Event("append", ((j - 2) \div 3) + 1)
    ELSE Event("pace", BACKOFF_INTERVAL)

\* C15: the events of a cycle are ordered.  Every attempt's history, up to
\* a failure's backoff, is a prefix of: gate, then per endpoint in list order
\* fetch, translate and append, pacing sleep of BACKOFF_INTERVAL, then one
\* write, then one pacing sleep; a completed cycle is that whole sequence.
\* So a pacing sleep lies between any two fetches and no endpoint is fetched
\* twice.
CycleOrder ==
    /\ Len(trace) <= 3 * Len(endpoints) + 3
    /\ \A j \in DOMAIN trace :
          trace[j].e # "backoff" =>
              trace[j] = CycleEvent(j, Len(endpoints), Len(collected_data))
    /\ \A j \in DOMAIN trace : trace[j].e = "backoff" => j = Len(trace)
    /\ pc = "pace_end" =>
          /\ Len(trace) = 3 * Len(endpoints) + 3
          /\ LastEvent = Event("pace", BACKOFF_INTERVAL)
    /\ \A i, j \in DOMAIN trace :
          (i < j /\ trace[i].e = "fetch" /\ trace[j].e = "fetch") =>
              /\ trace[i].a < trace[j].a
              /\ \E m \in i + 1 .. j - 1 :
                    trace[m] = Event("pace", BACKOFF_INTERVAL)
    /\ pc = "translate" => LastEvent = Event("fetch", idx)
    /\ pc = "write" /\ Len(endpoints) > 0 =>
          LastEvent = Event("pace", BACKOFF_INTERVAL)

\* C15 witness: a cycle over the longest endpoint list ran to its end
FullCycleCompleted ==
    /\ pc = "pace_end"
    /\ Len(endpoints) = MaxEndpoints
    /\ Count("pace") = MaxEndpoints + 1
    /\ Count("fetch") = MaxEndpoints

\* the failures that the generic except clause catches
OtherFailures == Exceptions \ ({"SunIsDown"} \cup ConnectionErrors)

\* C16: after a failure other than SunIsDown or a connection failure
\* self.data is empty during the wait, and still empty when the next attempt
\* begins.
DataClearedAfterError ==
    /\ [](raised \in OtherFailures /\ pc \in WaitStates =>
            pc = "WaitingAfterError" /\ data = EmptyDoc)
    /\ [][(pc = "WaitingAfterError" /\ pc' = "gate") => data' = EmptyDoc]_vars

\* C16 witness: a response had been parsed into self.data when the failure
\* came, and self.data is empty in the wait
ResponseCleared ==
    /\ pc = "WaitingAfterError"
    /\ raised = "DataCollectionError"
    /\ fetched # << >>
    /\ fetched[Len(fetched)] # EmptyDoc
    /\ data = EmptyDoc

\* C17: translate_response reads the response of the current endpoint of
\* the current attempt.  When translation starts, self.data is the response
\* just fetched for endpoint idx, and the batch holds the points of this
\* attempt's responses only; SunIsDown and a connection failure leave
\* self.data as it was.
TranslateReadsCurrent ==
    /\ [](pc = "translate" =>
            /\ Len(fetched) = idx
            /\ data = fetched[idx]
            /\ LastEvent = Event("fetch", idx))
    /\ [](pc = "pace" => collected_data = PointsOf(fetched))
    /\ [][(raised = "none"
           /\ raised' \in {"SunIsDown"} \cup ConnectionErrors) =>
              data' = data]_vars
    /\ [][pc' = "translate" => (pc = "translate" \/ data' = fetched'[idx'])]_vars

\* C17 witness: an attempt that follows a failure is about to fetch its first
\* response while self.data still holds a response of an earlier attempt
StaleResponseKept ==
    /\ pc = "fetch"
    /\ idx = 1
    /\ fetched = << >>
    /\ dropped > 0
    /\ data \in LoopDocs
    /\ collected_data = << >>

\* C18: the gate is evaluated once per attempt, at its start, with the
\* clock of that moment; no later step of the attempt raises SunIsDown.
GateOncePerAttempt ==
    /\ [](Count("gate") <= 1)
    /\ [](pc \in (RunningPcs \ {"gate"}) =>
            Count("gate") = 1 /\ trace[1] = Event("gate", 0))
    /\ [][(pc = "gate" /\ pc' \notin {"gate", "Stopped"}) =>
            /\ trace'[1] = Event("gate", 0)
            /\ (raised' = "SunIsDown") <=> ~GateActive]_vars
    /\ [][pc # "gate" => (raised' = "SunIsDown" => raised = "SunIsDown")]_vars
    /\ [][(pc \in WaitStates \cup {"pace_end"} /\ pc' # pc) =>
            (pc' = "Stopped" \/ (pc' = "gate" /\ trace' = << >>))]_vars

\* C18 witness: the gate went inactive while the cycle ran, and the batch
\* was written all the same
WrittenAfterSunset ==
    /\ pc = "pace_end"
    /\ ~GateActive
    /\ sink # << >>
    /\ Len(sink[1]) > 0
    /\ trace[1] = Event("gate", 0)

\* C20: with no endpoints an attempt fetches nothing; past an active gate
\* it calls the sink once with an empty batch, paces and starts over.
EmptyListWritesEmptyBatch ==
    /\ [](Len(endpoints) = 0 =>
            /\ Count("fetch") = 0
            /\ fetched = << >>
            /\ collected_data = << >>
            /\ pc \notin {"fetch", "translate", "pace"}
            /\ pc = "write" => trace = << Event("gate", 0) >>
            /\ pc = "pace_end" =>
                  /\ trace = << Event("gate", 0), Event("write", 0),
                                Event("pace", BACKOFF_INTERVAL) >>
                  /\ sink = << << >> >>)
    /\ [][(Len(endpoints) = 0 /\ GateStep /\ GateActive) => pc' = "write"]_vars
    /\ [][(Len(endpoints) = 0 /\ pc = "pace_end" /\ pc' # pc) =>
            (pc' = "Stopped" \/ (pc' = "gate" /\ trace' = << >>))]_vars

\* C20 witness: the empty batch was handed to the sink
EmptyBatchWritten ==
    /\ Len(endpoints) = 0
    /\ pc = "pace_end"
    /\ sink = << << >> >>
    /\ Count("write") = 1

---------------------------------------------------------------------------
(* Progress *)

\* C19: retries are unbounded and never get stuck.  If from some time on
\* no attempt fails (the gate is active, every fetch, translate and write
\* succeeds) and no interrupt comes, then the sink is written again and
\* again, whatever failed before.
RetriesNeverStuck ==
    <>[](raised = "none" /\ ~interrupted) => []<>(sink # << >>)

\* C19 witness: a batch over the longest endpoint list was accepted after an
\* earlier attempt had failed with points collected
WrittenAfterFailures ==
    /\ pc = "pace_end"
    /\ ~interrupted
    /\ dropped > 0
    /\ Len(endpoints) = MaxEndpoints
    /\ Len(sink) = 1

=============================================================================
